---- MODULE Spec2Model ----
(***************************************************************************)
(* Model of src/main.ts of step-security/get-secretmanager-secrets: the    *)
(* run() entry point (subscription pre-flight, configuration, reference    *)
(* parsing, and the sequential fetch / mask / publish loop).               *)
(*                                                                         *)
(* Strings that the program inspects character by character (secret        *)
(* values, the min_mask_length input) are sequences of one-character       *)
(* strings; "CR" and "LF" stand for \r and \n.                             *)
(***************************************************************************)
EXTENDS Integers, Sequences, FiniteSets, TLC

\* ------------------------------------------------------------------ bounds

\* Longest secrets input, in lines.
MaxRefs == 3
\* Longest secret value, in characters, of the masking specification.
MaxLen == 4
\* Largest minimum mask length of the masking specification.
MaxMin == 3

\* HTTP status that validateSubscription treats as fatal.
Forbidden == 403

\* ------------------------------------------------------------ JS numbers

\* A JavaScript number as parseInt produces it: an integer or NaN.
Num(k) == [nan |-> FALSE, n |-> k]
NaN == [nan |-> TRUE, n |-> 0]

\* JavaScript's  a >= b  for an integer a: false whenever b is NaN.
GreaterEq(a, b) == (~b.nan) /\ a >= b.n

Digits == <<"0", "1", "2", "3", "4", "5", "6", "7", "8", "9">>
IsDigit(c) == \E k \in 1..Len(Digits) : Digits[k] = c
DigitValue(c) == (CHOOSE k \in 1..Len(Digits) : Digits[k] = c) - 1

RECURSIVE ParseDigits(_, _, _, _)
ParseDigits(s, i, acc, seen) ==
  IF i <= Len(s) /\ IsDigit(s[i])
    THEN ParseDigits(s, i + 1, acc * Len(Digits) + DigitValue(s[i]), TRUE)
    ELSE IF seen THEN Num(acc) ELSE NaN

\* parseInt(s): optional sign, then the longest prefix of decimal digits;
\* NaN when there is no digit (the inputs used here have no 0x prefix).
ParseInt(s) ==
  LET neg == Len(s) >= 1 /\ s[1] = "-"
      signed == Len(s) >= 1 /\ s[1] \in {"-", "+"}
      r == ParseDigits(s, IF signed THEN 2 ELSE 1, 0, FALSE)
  IN IF r.nan THEN NaN ELSE Num(IF neg THEN 0 - r.n ELSE r.n)

\* ------------------------------------------------------------ parseBoolean

TrueValues == {"1", "t", "T", "true", "True", "TRUE"}
FalseValues == {"0", "f", "F", "false", "False", "FALSE"}

\* parseBoolean(input): empty is the default (false); anything that is
\* neither a true nor a false spelling throws.
ParseBooleanThrows(s) == s # "" /\ s \notin TrueValues /\ s \notin FalseValues
ParseBoolean(s) == s \in TrueValues

\* ------------------------------------------------------- parseSecretsRefs

Locators == {"s1", "s2"}
OutputNames == {"A"}

\* The lines a secrets input is made of: a blank line, a bare locator, a
\* locator with an explicit output name, and a locator with a dangling
\* separator (malformed).
SecretLines == {<<>>, <<"s1">>, <<"s2", ":", "A">>, <<"s1", ":">>}

IsBlankLine(l) == l = <<>>
IsBareRef(l) == Len(l) = 1 /\ l[1] \in Locators
IsBoundRef(l) == Len(l) = 3 /\ l[1] \in Locators /\ l[2] = ":" /\ l[3] \in OutputNames

\* One line to one reference; the derived output name of a bare locator is
\* the locator's last segment, here the locator token itself.
ParseLine(l) ==
  IF IsBoundRef(l) THEN [locator |-> l[1], output |-> l[3]]
                   ELSE [locator |-> l[1], output |-> l[1]]

RECURSIVE ParseFrom(_, _)
ParseFrom(lines, i) ==
  IF i > Len(lines) THEN <<>>
  ELSE IF IsBlankLine(lines[i]) THEN ParseFrom(lines, i + 1)
  ELSE <<ParseLine(lines[i])>> \o ParseFrom(lines, i + 1)

ParseSecretsRefsThrows(lines) ==
  \E i \in 1..Len(lines) :
    ~IsBlankLine(lines[i]) /\ ~IsBareRef(lines[i]) /\ ~IsBoundRef(lines[i])
ParseSecretsRefs(lines) == ParseFrom(lines, 1)

\* ---------------------------------------------------------------- getInput

\* getInput trims its value; a required input that is empty after trimming
\* throws.  A secrets input of blank lines only trims to the empty string.
RequiredInputThrows(lines) == \A i \in 1..Len(lines) : IsBlankLine(lines[i])

\* ------------------------------------------------------------ line masking

IsBreak(c) == c \in {"CR", "LF"}

RECURSIVE SplitFrom(_, _, _)
SplitFrom(v, i, cur) ==
  IF i > Len(v) THEN <<cur>>
  ELSE IF v[i] = "CR" /\ i < Len(v) /\ v[i + 1] = "LF"
    THEN <<cur>> \o SplitFrom(v, i + 2, <<>>)
  ELSE IF v[i] = "CR" \/ v[i] = "LF"
    THEN <<cur>> \o SplitFrom(v, i + 1, <<>>)
  ELSE SplitFrom(v, i + 1, Append(cur, v[i]))

RECURSIVE SplitLfFrom(_, _, _)
SplitLfFrom(v, i, cur) ==
  IF i > Len(v) THEN <<cur>>
  ELSE IF v[i] = "LF" THEN <<cur>> \o SplitLfFrom(v, i + 1, <<>>)
  ELSE SplitLfFrom(v, i + 1, Append(cur, v[i]))

\* A split that knows only the \n convention.
SplitLinesLfOnly(v) == SplitLfFrom(v, 1, <<>>)

\* value.split(/\r\n|\r|\n/g): at each position the alternation tries \r\n
\* first, so a CR LF pair is one separator.
SplitLines(v) == SplitFrom(v, 1, <<>>)

\* A masking test that leaves out lines of exactly the minimum length.
ShouldMaskStrict(line, min) == line # <<>> /\ (~min.nan) /\ Len(line) > min.n

\* if (line && line.length >= minMaskLength)
ShouldMask(line, min) == line # <<>> /\ GreaterEq(Len(line), min)

\* ------------------------------------------------------------------ inputs

\* min_mask_length inputs: empty (no integer), zero, two, and negative.
MinMaskInputs == {<<>>, <<"0">>, <<"2">>, <<"-", "2">>}
ExportInputs == {"", "true", "false", "yes"}

\* The characters of the secret values of the masking specification.
ValueChars == {"a", "b", "CR", "LF"}

RECURSIVE SeqsUpTo(_, _)
SeqsUpTo(S, n) ==
  IF n = 0 THEN {<<>>}
  ELSE LET shorter == SeqsUpTo(S, n - 1)
       IN shorter \cup {Append(s, x) : s \in {t \in shorter : Len(t) = n - 1}, x \in S}

\* What the secret store may return for a reference: "a\nbb\nccc",
\* "bb\r\n\rd" and "ccc".
SecretValues ==
  { <<"a", "LF", "b", "b", "LF", "c", "c", "c">>,
    <<"b", "b", "CR", "LF", "CR", "d">>,
    <<"c", "c", "c">> }

\* What the pre-flight request may end in: a response, or a thrown error that
\* is an axios error with a response status or with none (0: timeout, network
\* unreachable), or is no axios error.
Outcomes ==
  { [threw |-> FALSE, axios |-> FALSE, status |-> 200],
    [threw |-> TRUE, axios |-> TRUE, status |-> 403],
    [threw |-> TRUE, axios |-> TRUE, status |-> 500],
    [threw |-> TRUE, axios |-> TRUE, status |-> 0],
    [threw |-> TRUE, axios |-> FALSE, status |-> 0] }
NoError == [threw |-> FALSE, axios |-> FALSE, status |-> 0]

\* ------------------------------------------------------------------- state

VARIABLES
  pc,                 \* position of run()
  inputs,             \* the action's inputs, as the runner passes them
  err,                \* the error caught in validateSubscription
  minMaskLength,      \* local of run()
  exportEnvironment,  \* local of run()
  secretsRefs,        \* local of run()
  idx,                \* position of the for-of loop, 1-based
  inflight,           \* references whose accessSecret call is pending
  accessed,           \* the accessSecret calls made so far and their results
  value,              \* local of the loop body
  lineIdx,            \* position of the forEach over the lines of value
  masked,             \* strings registered with setSecret
  outputs,            \* setOutput calls, in order
  env,                \* exportVariable calls, in order
  log,                \* error / info / setFailed messages
  exitCode            \* the process's exit code

vars == <<pc, inputs, err, minMaskLength, exportEnvironment, secretsRefs, idx,
          inflight, accessed, value, lineIdx, masked, outputs, env, log, exitCode>>

config == <<minMaskLength, exportEnvironment, secretsRefs>>
published == <<masked, outputs, env>>
fetching == <<inflight, accessed, value, lineIdx>>

\* The state when run() has been called and the pre-flight request is out.
Init ==
  /\ pc = "validate"
  /\ inputs \in [secrets : SeqsUpTo(SecretLines, MaxRefs),
                 min_mask_length : MinMaskInputs,
                 export_to_environment : ExportInputs]
  /\ err = NoError
  /\ minMaskLength = Num(0)
  /\ exportEnvironment = FALSE
  /\ secretsRefs = <<>>
  /\ idx = 1
  /\ inflight = {}
  /\ accessed = <<>>
  /\ value = <<>>
  /\ lineIdx = 1
  /\ masked = {}
  /\ outputs = <<>>
  /\ env = <<>>
  /\ log = <<>>
  /\ exitCode = 0

\* --------------------------------------------------------- validateSubscription

\* A pre-flight test that drops the status comparison.
IsForbiddenAnyAxios(e) == e.axios

\* isAxiosError(err) && err.response?.status === 403
IsForbidden(e) == e.axios /\ e.status = Forbidden

\* await axios.get(...) settles: it resolves, or it rejects into the catch.
AxiosSettle ==
  /\ pc = "validate"
  /\ \E o \in Outcomes :
       /\ err' = (IF o.threw THEN o ELSE NoError)
       /\ pc' = (IF o.threw THEN "catch" ELSE "config")
  /\ UNCHANGED <<inputs, config, idx, fetching, published, log, exitCode>>

\* A denial that is reported but does not end the process.
SubscriptionDeniedNoExit ==
  /\ pc = "catch"
  /\ IsForbidden(err)
  /\ log' = Append(log, "error: Subscription is not valid")
  /\ pc' = "config"
  /\ err' = NoError
  /\ UNCHANGED <<inputs, config, idx, fetching, published, exitCode>>

\* catch, 403: error(...); process.exit(1)
SubscriptionDenied ==
  /\ pc = "catch"
  /\ IsForbidden(err)
  /\ log' = Append(log, "error: Subscription is not valid")
  /\ exitCode' = 1
  /\ pc' = "exited"
  /\ err' = NoError
  /\ UNCHANGED <<inputs, config, idx, fetching, published>>

\* catch, anything else: info(...); validateSubscription returns.
SubscriptionSoftFail ==
  /\ pc = "catch"
  /\ ~IsForbidden(err)
  /\ log' = Append(log, "info: Timeout or API not reachable")
  /\ pc' = "config"
  /\ err' = NoError
  /\ UNCHANGED <<inputs, config, idx, fetching, published, exitCode>>

\* ------------------------------------------------------------------- run

\* The catch block of run(): setFailed(msg) reports the failure and sets the
\* exit code; run() returns.
SetFailed(kind) ==
  /\ log' = Append(log, kind)
  /\ exitCode' = 1
  /\ pc' = "done"

ConfigThrows ==
  RequiredInputThrows(inputs.secrets) \/ ParseBooleanThrows(inputs.export_to_environment)

\* The inputs are read; none throws.
ReadConfig ==
  /\ pc = "config"
  /\ ~ConfigThrows
  /\ minMaskLength' = ParseInt(inputs.min_mask_length)
  /\ exportEnvironment' = ParseBoolean(inputs.export_to_environment)
  /\ pc' = "parse"
  /\ UNCHANGED <<inputs, err, secretsRefs, idx, fetching, published, log, exitCode>>

\* getInput('secrets', {required: true}) or parseBoolean throws.  parseInt
\* has run before parseBoolean does.
ReadConfigThrows ==
  /\ pc = "config"
  /\ ConfigThrows
  /\ minMaskLength' = (IF RequiredInputThrows(inputs.secrets)
                         THEN minMaskLength
                         ELSE ParseInt(inputs.min_mask_length))
  /\ SetFailed("failed: invalid input")
  /\ UNCHANGED <<inputs, err, exportEnvironment, secretsRefs, idx, fetching, published>>

\* A parse that hands over the references before the malformed line.
ParseRefsLazy ==
  /\ pc = "parse"
  /\ secretsRefs' =
       (LET bad == {i \in 1..Len(inputs.secrets) :
                      ParseSecretsRefsThrows(SubSeq(inputs.secrets, 1, i))}
            upto == IF bad = {} THEN Len(inputs.secrets)
                    ELSE (CHOOSE i \in bad : \A j \in bad : i <= j) - 1
        IN ParseSecretsRefs(SubSeq(inputs.secrets, 1, upto)))
  /\ idx' = 1
  /\ pc' = "loop"
  /\ UNCHANGED <<inputs, err, minMaskLength, exportEnvironment, fetching,
                 published, log, exitCode>>

\* const secretsRefs = parseSecretsRefs(secretsInput), or its throw.
ParseRefs ==
  /\ pc = "parse"
  /\ IF ParseSecretsRefsThrows(inputs.secrets)
       THEN /\ SetFailed("failed: malformed reference")
            /\ UNCHANGED <<secretsRefs, idx>>
       ELSE /\ secretsRefs' = ParseSecretsRefs(inputs.secrets)
            /\ idx' = 1
            /\ pc' = "loop"
            /\ UNCHANGED <<log, exitCode>>
  /\ UNCHANGED <<inputs, err, minMaskLength, exportEnvironment, fetching, published>>

\* A loop that issues the request of every reference at once.
AccessSecretAll ==
  /\ pc = "loop"
  /\ idx <= Len(secretsRefs)
  /\ inflight' = idx..Len(secretsRefs)
  /\ pc' = "await"
  /\ UNCHANGED <<inputs, err, config, idx, accessed, value, lineIdx, published,
                 log, exitCode>>

\* for (const ref of secretsRefs): client.accessSecret(ref, encoding) is
\* called and run() suspends on it.
AccessSecret ==
  /\ pc = "loop"
  /\ idx <= Len(secretsRefs)
  /\ inflight' = inflight \cup {idx}
  /\ pc' = "await"
  /\ UNCHANGED <<inputs, err, config, idx, accessed, value, lineIdx, published,
                 log, exitCode>>

\* A loop that may stop one reference short.
LoopEndEarly ==
  /\ pc = "loop"
  /\ idx >= Len(secretsRefs)
  /\ pc' = "done"
  /\ UNCHANGED <<inputs, err, config, idx, fetching, published, log, exitCode>>

\* The loop is over: run() returns normally.
LoopEnd ==
  /\ pc = "loop"
  /\ idx > Len(secretsRefs)
  /\ pc' = "done"
  /\ UNCHANGED <<inputs, err, config, idx, fetching, published, log, exitCode>>

\* The awaited accessSecret resolves with the secret's value.
AccessResolve ==
  /\ pc = "await"
  /\ \E v \in SecretValues :
       /\ value' = v
       /\ accessed' = Append(accessed, [ref |-> idx, ok |-> TRUE, value |-> v])
  /\ inflight' = inflight \ {idx}
  /\ lineIdx' = 1
  /\ pc' = "mask"
  /\ UNCHANGED <<inputs, err, config, idx, published, log, exitCode>>

\* A rejected fetch that is swallowed: the loop goes on to the next reference.
AccessRejectContinue ==
  /\ pc = "await"
  /\ accessed' = Append(accessed, [ref |-> idx, ok |-> FALSE, value |-> <<>>])
  /\ inflight' = inflight \ {idx}
  /\ idx' = idx + 1
  /\ pc' = "loop"
  /\ UNCHANGED <<inputs, err, config, value, lineIdx, published, log, exitCode>>

\* The awaited accessSecret rejects: the catch block of run() takes over.
AccessReject ==
  /\ pc = "await"
  /\ accessed' = Append(accessed, [ref |-> idx, ok |-> FALSE, value |-> <<>>])
  /\ inflight' = inflight \ {idx}
  /\ SetFailed("failed: access error")
  /\ UNCHANGED <<inputs, err, config, idx, value, lineIdx, published>>

\* One turn of value.split(...).forEach: setSecret(line) for a line that is
\* long enough.
MaskLine ==
  /\ pc = "mask"
  /\ lineIdx <= Len(SplitLines(value))
  /\ masked' = (IF ShouldMask(SplitLines(value)[lineIdx], minMaskLength)
                  THEN masked \cup {SplitLines(value)[lineIdx]}
                  ELSE masked)
  /\ lineIdx' = lineIdx + 1
  /\ UNCHANGED <<pc, inputs, err, config, idx, inflight, accessed, value,
                 outputs, env, log, exitCode>>

\* setOutput(ref.output, value), once the forEach is over.
PublishOutput ==
  /\ pc = "mask"
  /\ lineIdx > Len(SplitLines(value))
  /\ outputs' = Append(outputs, [name |-> secretsRefs[idx].output, value |-> value])
  /\ pc' = "export"
  /\ UNCHANGED <<inputs, err, config, idx, fetching, masked, env, log, exitCode>>

\* An export that does not look at the flag.
PublishEnvAlways ==
  /\ pc = "export"
  /\ env' = Append(env, [name |-> secretsRefs[idx].output, value |-> value])
  /\ idx' = idx + 1
  /\ pc' = "loop"
  /\ UNCHANGED <<inputs, err, config, fetching, masked, outputs, log, exitCode>>

\* if (exportEnvironment) exportVariable(ref.output, value); the loop body
\* ends and the iteration moves to the next reference.
PublishEnv ==
  /\ pc = "export"
  /\ env' = (IF exportEnvironment
               THEN Append(env, [name |-> secretsRefs[idx].output, value |-> value])
               ELSE env)
  /\ idx' = idx + 1
  /\ pc' = "loop"
  /\ UNCHANGED <<inputs, err, config, fetching, masked, outputs, log, exitCode>>

Next ==
  \/ AxiosSettle
  \/ SubscriptionDenied
  \/ SubscriptionSoftFail
  \/ ReadConfig
  \/ ReadConfigThrows
  \/ ParseRefs
  \/ AccessSecret
  \/ AccessResolve
  \/ AccessReject
  \/ MaskLine
  \/ PublishOutput
  \/ PublishEnv
  \/ LoopEnd

Spec == Init /\ [][Next]_vars

\* The event loop runs every continuation that is ready, and every request
\* that is out settles.
FairSpec == Spec /\ WF_vars(Next)

\* ------------------------------------------------- masking on its own

\* One fetched value in front of the forEach of run(), for every value up to
\* MaxLen characters and every minimum mask length up to MaxMin.
MaskInit ==
  /\ pc = "mask"
  /\ \E m \in 0..MaxMin :
       inputs = [secrets |-> << <<"s1">> >>,
                 min_mask_length |-> <<Digits[m + 1]>>,
                 export_to_environment |-> ""]
  /\ err = NoError
  /\ minMaskLength = ParseInt(inputs.min_mask_length)
  /\ exportEnvironment = ParseBoolean(inputs.export_to_environment)
  /\ secretsRefs = ParseSecretsRefs(inputs.secrets)
  /\ idx = 1
  /\ inflight = {}
  /\ value \in SeqsUpTo(ValueChars, MaxLen)
  /\ accessed = <<[ref |-> 1, ok |-> TRUE, value |-> value]>>
  /\ lineIdx = 1
  /\ masked = {}
  /\ outputs = <<>>
  /\ env = <<>>
  /\ log = <<>>
  /\ exitCode = 0

MaskNext == MaskLine \/ PublishOutput

MaskSpec == MaskInit /\ [][MaskNext]_vars

\* ---------------------------------------------------------------- claims

\* The non-empty lines of v, said without splitting: the maximal runs of
\* characters that are not line breaks.
MaximalLines(v) ==
  { SubSeq(v, i, j) : <<i, j>> \in
      { p \in (1..Len(v)) \X (1..Len(v)) :
          /\ p[1] <= p[2]
          /\ \A k \in p[1]..p[2] : ~IsBreak(v[k])
          /\ (p[1] = 1 \/ IsBreak(v[p[1] - 1]))
          /\ (p[2] = Len(v) \/ IsBreak(v[p[2] + 1])) } }

\* The lines of v that have to be masked under the minimum length min.
MustMask(v, min) == { l \in MaximalLines(v) : (~min.nan) /\ Len(l) >= min.n }

Logged(m) == \E i \in 1..Len(log) : log[i] = m
FailureMessages ==
  {"failed: invalid input", "failed: malformed reference", "failed: access error"}
FailureReported == \E i \in 1..Len(log) : log[i] \in FailureMessages
DenialLogged == Logged("error: Subscription is not valid")

NothingFetched ==
  accessed = <<>> /\ inflight = {} /\ masked = {} /\ outputs = <<>> /\ env = <<>>

\* Reference i's fetch, masking and publication are over.
Completed(i) ==
  /\ i <= Len(accessed) /\ accessed[i].ok
  /\ MustMask(accessed[i].value, minMaskLength) \subseteq masked
  /\ i <= Len(outputs)
  /\ (exportEnvironment => i <= Len(env))

\* C1: every value written to an output or to an environment variable has
\* every non-empty line of at least the minimum mask length registered with
\* setSecret already.
C1_MaskBeforePublish ==
  /\ \A i \in 1..Len(outputs) : MustMask(outputs[i].value, minMaskLength) \subseteq masked
  /\ \A i \in 1..Len(env) : MustMask(env[i].value, minMaskLength) \subseteq masked

C1_Witness ==
  /\ Len(env) >= 1
  /\ minMaskLength = Num(2)
  /\ env[1].value = <<"a", "LF", "b", "b", "LF", "c", "c", "c">>
  /\ <<"b", "b">> \in masked
  /\ <<"a">> \notin masked

\* C2: once the fetch of the k-th reference has failed the run is over and
\* failed, the outputs of references 1..k-1 are set, reference k has none,
\* reference k was fetched once, and no later reference is fetched, masked or
\* published.
C2_FetchFailureAborts ==
  \A k \in 1..Len(accessed) :
    ~accessed[k].ok =>
      /\ pc = "done" /\ exitCode = 1 /\ Logged("failed: access error")
      /\ Len(accessed) = k /\ inflight = {}
      /\ \A i \in 1..k : accessed[i].ref = i
      /\ Len(outputs) = k - 1
      /\ \A i \in 1..(k - 1) :
           outputs[i] = [name |-> secretsRefs[i].output, value |-> accessed[i].value]
      /\ Len(env) = (IF exportEnvironment THEN k - 1 ELSE 0)
      /\ masked = UNION { MustMask(accessed[i].value, minMaskLength) : i \in 1..(k - 1) }

C2_Witness ==
  /\ Len(secretsRefs) = 3
  /\ Len(accessed) = 2 /\ ~accessed[2].ok
  /\ pc = "done" /\ exitCode = 1
  /\ Len(outputs) = 1

\* C3: a forbidden (403) response ends the process at once with exit code 1;
\* nothing is fetched, masked, set or bound then or afterwards.
C3_ForbiddenExits ==
  /\ [][(pc = "catch" /\ err.axios /\ err.status = Forbidden)
          => (pc' = "exited" /\ exitCode' = 1 /\ NothingFetched')]_vars
  /\ [][pc = "exited" => UNCHANGED vars]_vars
  /\ [](DenialLogged => pc = "exited" /\ exitCode = 1 /\ NothingFetched)

C3_Witness == pc = "exited" /\ DenialLogged /\ exitCode = 1

\* C4: a pre-flight failure that is not a 403 response leaves the run where a
\* successful call leaves it: about to read the configuration, exit code 0,
\* nothing else touched.
C4_SoftFailureProceeds ==
  /\ [][(pc = "catch" /\ ~(err.axios /\ err.status = Forbidden))
          => (/\ pc' = "config" /\ exitCode' = 0 /\ ~FailureReported'
              /\ UNCHANGED <<inputs, config, idx, fetching, published>>)]_vars
  /\ [][(pc = "validate" /\ pc' # "catch")
          => (/\ pc' = "config" /\ exitCode' = 0 /\ ~FailureReported'
              /\ UNCHANGED <<inputs, config, idx, fetching, published>>)]_vars

C4_Witness ==
  /\ pc = "done" /\ exitCode = 0
  /\ Logged("info: Timeout or API not reachable")
  /\ Len(outputs) = 3

\* C5: for a minimum mask length >= 0, when the masking of a value is over
\* the registered strings are exactly its non-empty lines of at least that
\* length; before that they are among them; the whole value is registered
\* only if it is such a line.
C5_MaskedLinesExact ==
  /\ masked \subseteq MustMask(value, minMaskLength)
  /\ (pc = "export" => masked = MustMask(value, minMaskLength))
  /\ (value \in masked =>
        /\ value # <<>>
        /\ \A k \in 1..Len(value) : ~IsBreak(value[k])
        /\ Len(value) >= minMaskLength.n)

C5_Witness ==
  /\ pc = "export"
  /\ masked # {}
  /\ \E l \in MaximalLines(value) : l \notin masked
  /\ \E k \in 1..Len(value) : value[k] = "CR"

\* C6: every output is the reference's name with the full fetched value; it
\* is set when the loop body is past setOutput; with the flag false nothing is
\* ever exported; with the flag true every export repeats the output's name
\* and value, and is there when the loop body is over.
C6_OutputAndExport ==
  /\ \A i \in 1..Len(outputs) :
       /\ i <= Len(accessed) /\ i <= Len(secretsRefs)
       /\ outputs[i] = [name |-> secretsRefs[i].output, value |-> accessed[i].value]
  /\ (pc = "export" => Len(outputs) = idx)
  /\ (pc = "loop" => Len(outputs) = idx - 1)
  /\ (~exportEnvironment => env = <<>>)
  /\ (exportEnvironment =>
        /\ \A i \in 1..Len(env) : i <= Len(outputs) /\ env[i] = outputs[i]
        /\ (pc = "loop" => Len(env) = Len(outputs)))

C6_Witness ==
  /\ pc = "done" /\ exitCode = 0
  /\ exportEnvironment
  /\ Len(outputs) = 2 /\ Len(env) = 2
  /\ Len(SplitLines(outputs[1].value)) > 1

\* C7: an input min_mask_length that is not an integer fails the run before
\* anything is fetched or published.
IsIntegerText(s) ==
  /\ s # <<>>
  /\ \A k \in 1..Len(s) : IsDigit(s[k])

C7_InvalidIntegerFails ==
  ~IsIntegerText(inputs.min_mask_length) =>
    /\ accessed = <<>> /\ inflight = {} /\ outputs = <<>> /\ env = <<>>
    /\ (pc = "done" => exitCode = 1 /\ FailureReported)

\* The value the runner keeps for an output name: the last one written.
Effective(outs, name) ==
  outs[CHOOSE j \in 1..Len(outs) :
         /\ outs[j].name = name
         /\ \A k \in 1..Len(outs) : outs[k].name = name => k <= j].value

\* C8: at most one fetch is pending; a reference's fetch is started only when
\* every earlier reference is fetched, masked and published; fetches and
\* setOutput calls follow the list's order; of two references with one output
\* name the later one's value remains.
C8_Sequential ==
  /\ Cardinality(inflight) <= 1
  /\ \A i \in inflight : \A j \in 1..(i - 1) : Completed(j)
  /\ \A k \in 1..Len(accessed) :
       /\ accessed[k].ref = k
       /\ \A j \in 1..(k - 1) : Completed(j)
  /\ \A j \in 1..Len(outputs) : outputs[j].name = secretsRefs[j].output
  /\ (pc = "done" /\ exitCode = 0 =>
        \A i \in 1..Len(secretsRefs) :
          \A j \in i..Len(secretsRefs) :
            (/\ secretsRefs[j].output = secretsRefs[i].output
             /\ \A k \in (j + 1)..Len(secretsRefs) :
                  secretsRefs[k].output # secretsRefs[i].output)
              => Effective(outputs, secretsRefs[i].output) = accessed[j].value)

C8_Witness ==
  /\ pc = "done" /\ exitCode = 0
  /\ Len(secretsRefs) = 3
  /\ secretsRefs[1].output = secretsRefs[3].output
  /\ secretsRefs[2].output # secretsRefs[1].output
  /\ accessed[1].value # accessed[3].value
  /\ Effective(outputs, secretsRefs[1].output) = accessed[3].value

\* The inputs are valid and the secrets input parses.
ValidInputs ==
  /\ \E i \in 1..Len(inputs.secrets) : inputs.secrets[i] # <<>>
  /\ \A i \in 1..Len(inputs.secrets) :
       \/ inputs.secrets[i] = <<>>
       \/ IsBareRef(inputs.secrets[i])
       \/ IsBoundRef(inputs.secrets[i])
  /\ IsIntegerText(inputs.min_mask_length)
  /\ inputs.export_to_environment \in {"", "true", "false"}

NonBlank(lines) == Cardinality({i \in 1..Len(lines) : lines[i] # <<>>})

\* No denial, valid inputs, and no fetch has failed.
AllWell ==
  /\ ~DenialLogged
  /\ ~(pc = "catch" /\ err.axios /\ err.status = Forbidden)
  /\ ValidInputs
  /\ \A k \in 1..Len(accessed) : accessed[k].ok

\* C9: the run terminates; with no denial, valid inputs and no failed fetch
\* the exit code stays 0 and no failure is reported, and at the end there is
\* exactly one output per reference, in order, with the reference's fetched
\* value.
C9_SuccessfulRun ==
  /\ <>(pc \in {"done", "exited"})
  /\ [](AllWell => exitCode = 0 /\ ~FailureReported /\ pc # "exited")
  /\ [](AllWell /\ pc = "done" =>
          /\ Len(secretsRefs) = NonBlank(inputs.secrets)
          /\ Len(outputs) = Len(secretsRefs)
          /\ Len(accessed) = Len(secretsRefs)
          /\ \A i \in 1..Len(secretsRefs) :
               outputs[i] = [name |-> secretsRefs[i].output, value |-> accessed[i].value])

C9_Witness ==
  /\ AllWell /\ pc = "done" /\ exitCode = 0
  /\ Len(outputs) = 3

\* C10: with a malformed line anywhere in the secrets input nothing is ever
\* fetched, masked, set or bound, and the run ends failed.
C10_ParseBeforeFetch ==
  (\E i \in 1..Len(inputs.secrets) :
     /\ inputs.secrets[i] # <<>>
     /\ ~IsBareRef(inputs.secrets[i])
     /\ ~IsBoundRef(inputs.secrets[i]))
  => /\ NothingFetched
     /\ (pc = "done" => exitCode = 1 /\ FailureReported)

C10_Witness ==
  /\ pc = "done" /\ exitCode = 1
  /\ Len(inputs.secrets) = 2
  /\ inputs.secrets[1] = <<"s1">>
  /\ inputs.secrets[2] = <<"s1", ":">>
  /\ Logged("failed: malformed reference")
  /\ NothingFetched

====
